---- MODULE Spec2Model ----
(***************************************************************************)
(* CacheableImage (src/CacheableImage.js): the component that resolves a   *)
(* remote image source to a file of the on-disk cache, downloading it when *)
(* it is missing.  The model holds the component's fields, the files of    *)
(* the cache directory, the download jobs at the transport (RNFS) and the  *)
(* asynchronous operations whose callbacks have not run yet.  Each action  *)
(* is one lifecycle method, one promise callback or one step of the        *)
(* transport / file system.                                                *)
(***************************************************************************)
EXTENDS Integers, Sequences, FiniteSets, TLC

\* ---------------------------------------------------------------- bounds
\* Number of distinct cache files (target paths) a source can resolve to.
NumPaths == 2
\* Number of remote sources handed to processSource over the component's life
\* (componentWillMount plus componentWillReceiveProps).
MaxSubmits == 2

Paths == 1..NumPaths
\* A source without a uri (a local asset) is written NoUri.
NoUri == 0
Sources == Paths \cup {NoUri}
\* null for cachedImagePath and jobId.
Null == 0

\* HTTP status codes a download can report: a success, the two the code
\* singles out, and another failure.
Ok == 200
Forbidden == 403
NotFound == 404
ServerError == 500
Statuses == {Ok, Forbidden, NotFound, ServerError}

\* A file of the cache: absent, holding part of a response or the body of a
\* failed one (size > 0), or holding a whole successful response.
FileStates == {"none", "partial", "complete"}

VARIABLES
  pc,               \* "constructed", "mounted", "unmounted"
  propsSource,      \* this.props.source
  isRemote,         \* this.state.isRemote
  cacheable,        \* this.state.cacheable
  cachedImagePath,  \* this.state.cachedImagePath (Null or a path)
  networkAvailable, \* this.networkAvailable
  downloading,      \* this.downloading
  jobId,            \* this.jobId (Null or a job handle)
  fs,               \* the cache files: path -> FileStates
  reqs,             \* remote sources processed, the n-th checkImageCache
                    \* call: target path, phase ("stat", "hit", "offline",
                    \* "mkdir", "mkdirFail", "started"); history: stopped
                    \* (the job processSource stopped, Null when none)
  jobs,             \* the download jobs RNFS.downloadFile has started: target
                    \* path, request, transport state st ("live", "resolved",
                    \* "rejected", "done": callback delivered), begin event
                    \* ("none", "queued", "delivered"), status; history:
                    \* cancelled (stopped while live), superseded (live and
                    \* tracked as this.jobId when a later source was
                    \* processed), end (how it ended)
  dels,             \* deleteFilePath calls not yet executed, per path
  writerJob,        \* history: the job whose promise callback last called
                    \* setState({cacheable, cachedImagePath}); Null otherwise
  replaced,         \* history: the path the resolved entry was last changed
                    \* away from to another path; Null when none
  useQueryParamsInCacheKey,  \* this.props.useQueryParamsInCacheKey
  keyed             \* the cache keys processSource has derived: the uri of
                    \* the source and the cacheKey handed to checkImageCache

vars == <<pc, propsSource, isRemote, cacheable, cachedImagePath, networkAvailable,
          downloading, jobId, fs, reqs, jobs, dels,
          writerJob, replaced, useQueryParamsInCacheKey, keyed>>

\* The part of the state cache-key derivation reads and writes.
keying == <<useQueryParamsInCacheKey, keyed>>

ctl == <<downloading, jobId>>
resolved == <<cacheable, cachedImagePath, writerJob, replaced>>

\* ------------------------------------------------------------ helpers
\* res.isFile() && res.size > 0
StatValid(p) == fs[p] \in {"partial", "complete"}

\* RNFS.exists(filePath)
Exists(p) == fs[p] # "none"

\* The cache file a source resolves to.  The key is a digest of the uri's
\* pathname (useQueryParamsInCacheKey defaults to false); sources are named
\* here by the file they resolve to.
TargetPath(source) == source

\* RNFS.stopDownload(id): a job still running is aborted and its promise
\* will reject; a job that has already ended is not affected.
TransportStop(js, id) ==
  IF id \in DOMAIN js /\ js[id].st = "live"
    THEN [js EXCEPT ![id].st = "rejected", ![id].cancelled = TRUE]
    ELSE js

\* stopDownload(): the jobs after the call.
StopDownloadJobs(js) == IF jobId = Null THEN js ELSE TransportStop(js, jobId)

\* this.setState({cacheable: c, cachedImagePath: p}) called from the
\* callback of job j (Null: from a stat or mkdir callback).  The call is
\* taken to update this.state whenever it is made, also after unmount.
SetState(c, p, j) ==
  /\ cacheable' = c
  /\ cachedImagePath' = p
  /\ writerJob' = j
  /\ replaced' = IF cachedImagePath # Null /\ p # Null /\ p # cachedImagePath
                   THEN cachedImagePath
                   ELSE IF p = replaced THEN Null ELSE replaced

\* deleteFilePath(p): RNFS.exists is asked; the answer comes later.
DeleteFilePath(d, p) == [d EXCEPT ![p] = @ + 1]

\* ------------------------------------------------- cache-key derivation
\* Strings are sequences of characters.  The uris of the key derivation:
\* a pathname and a query, the query being what url-parse hands over when
\* its parser argument is true (line 197): an object with one property per
\* parameter of the query string, its value a string.
MaxPathLen == 3
MaxValueLen == 1
\* Sources whose keys are derived in one behaviour.
MaxKeyed == 2

PathChars == {"a", "."}
ValueChars == {"a", "1"}
ParamNames == {"v", "x"}

\* All strings over cs of length lo..hi.
Strings(cs, lo, hi) == UNION {[1..n -> cs] : n \in lo..hi}

\* "/" followed by up to MaxPathLen - 1 characters.
Pathnames == {<<"/">> \o s : s \in Strings(PathChars, 0, MaxPathLen - 1)}
\* The values of parameters: not empty.
Values == Strings(ValueChars, 1, MaxValueLen)
Queries == UNION {[D -> Values] : D \in SUBSET ParamNames}
Uris == [pathname : Pathnames, query : Queries]

\* The values of the prop useQueryParamsInCacheKey: an array of parameter
\* names, or a value that is not an array and is truthy or falsy.
NameLists == {<<>>} \cup {<<k>> : k \in ParamNames}
               \cup {<<k, l>> : k, l \in ParamNames}
Policies == {[isArray |-> TRUE, names |-> ns, truthy |-> TRUE] : ns \in NameLists}
              \cup {[isArray |-> FALSE, names |-> <<>>, truthy |-> b] : b \in BOOLEAN}
\* defaultProps: useQueryParamsInCacheKey: false
DefaultPolicy == [isArray |-> FALSE, names |-> <<>>, truthy |-> FALSE]

\* String(o) of an object o that is not a string: the text "[object Object]",
\* written as one character that no pathname or value contains.
ObjectToString(o) == <<"[object Object]">>

\* The forEach of lines 202-206 over names[i..]: the value of each listed
\* parameter the query has is appended, in the order of the list.
RECURSIVE ConcatListed(_, _, _, _)
ConcatListed(acc, names, i, query) ==
  IF i > Len(names)
    THEN acc
    ELSE ConcatListed(IF names[i] \in DOMAIN query
                        THEN acc \o query[names[i]]
                        ELSE acc,
                      names, i + 1, query)

\* The string that is digested (lines 200-209).
Cacheable(uri, policy) ==
  IF policy.isArray
    THEN ConcatListed(uri.pathname, policy.names, 1, uri.query)
    ELSE IF policy.truthy
           THEN uri.pathname \o ObjectToString(uri.query)
           ELSE uri.pathname

\* The index of the last "." of s, 0 when there is none.
LastDot(s) ==
  LET dots == {i \in 1..Len(s) : s[i] = "."}
  IN  IF dots = {} THEN 0 ELSE CHOOSE i \in dots : \A k \in dots : k <= i

\* url.pathname.replace(/.*\.(.*)/, '$1'): what follows the last "." of the
\* pathname; the pathname itself when it has no ".".
Type(pathname) ==
  IF LastDot(pathname) = 0
    THEN pathname
    ELSE SubSeq(pathname, LastDot(pathname) + 1, Len(pathname))

\* SHA1(s).toString(): the digest, taken to be injective, is named by the
\* string it digests.
SHA1(s) == [sha1 |-> s]

\* cacheKey (line 211): the digest, of fixed length, followed by "." and the
\* type when the type is shorter than the pathname.
CacheKey(uri, policy) ==
  [digest |-> SHA1(Cacheable(uri, policy)),
   suffix |-> IF Len(Type(uri.pathname)) < Len(uri.pathname)
                THEN <<".">> \o Type(uri.pathname)
                ELSE <<>>]

\* ---------------------------------------------------------------- Init
Init ==
  /\ pc = "constructed"
  /\ propsSource \in Sources
  /\ isRemote = FALSE
  /\ cachedImagePath = Null
  /\ cacheable = TRUE
  /\ networkAvailable \in BOOLEAN
  /\ downloading = FALSE
  /\ jobId = Null
  /\ fs \in [Paths -> {"none", "complete"}]
  /\ reqs = <<>>
  /\ jobs = <<>>
  /\ dels = [p \in Paths |-> 0]
  /\ writerJob = Null
  /\ replaced = Null
  /\ useQueryParamsInCacheKey = DefaultPolicy
  /\ keyed = <<>>

\* ------------------------------------------------------- processSource
\* processSource(source): a source with a uri stops the tracked job, derives
\* the cache file and calls checkImageCache, which asks RNFS.stat.
processSource(source) ==
  IF source # NoUri
    THEN /\ Len(reqs) < MaxSubmits
         /\ jobs' = [j \in DOMAIN jobs |->
                      [StopDownloadJobs(jobs)[j] EXCEPT
                         !.superseded = @ \/ (jobs[j].st = "live" /\ jobId = j)]]
         /\ downloading' = IF jobId # Null THEN FALSE ELSE downloading
         /\ jobId' = Null
         /\ reqs' = Append(reqs, [path |-> TargetPath(source), phase |-> "stat",
                                  stopped |-> jobId])
         /\ isRemote' = TRUE
    ELSE /\ isRemote' = FALSE
         /\ UNCHANGED <<jobs, downloading, jobId, reqs>>

componentWillMount ==
  /\ pc = "constructed"
  /\ pc' = "mounted"
  /\ processSource(propsSource)
  /\ UNCHANGED <<keying, propsSource, networkAvailable, fs, dels, resolved>>

\* nextProps = {source, networkAvailable: net}; sameObject: nextProps.source
\* is the object this.props.source (a new object can carry the same uri).
componentWillReceiveProps(source, sameObject, net) ==
  /\ pc = "mounted"
  /\ sameObject => source = propsSource
  /\ ~sameObject \/ net # networkAvailable
  /\ propsSource' = source
  /\ networkAvailable' = net
  /\ processSource(source)
  /\ UNCHANGED <<keying, pc, fs, dels, resolved>>

componentWillUnmount ==
  /\ pc = "mounted"
  /\ pc' = "unmounted"
  /\ IF downloading /\ jobId # Null
       THEN /\ jobs' = StopDownloadJobs(jobs)
            /\ downloading' = FALSE
            /\ jobId' = Null
       ELSE UNCHANGED <<jobs, downloading, jobId>>
  /\ UNCHANGED <<keying, propsSource, isRemote, networkAvailable, fs, reqs, dels, resolved>>

\* NetInfo reports a change while the listener is registered.
handleConnectivityChange(isConnected) ==
  /\ pc = "mounted"
  /\ isConnected # networkAvailable
  /\ networkAvailable' = isConnected
  /\ UNCHANGED <<keying, pc, propsSource, isRemote, fs, reqs, jobs, ctl, dels, resolved>>

\* ----------------------------------------------------- checkImageCache
\* StatThen with the failure path entered after the hit was recorded, as
\* when the hit handler throws into the chained catch.
StatThenFallsThrough(r) ==
  /\ reqs[r].phase = "stat"
  /\ StatValid(reqs[r].path)
  /\ SetState(TRUE, reqs[r].path, Null)
  /\ reqs' = [reqs EXCEPT ![r].phase =
                IF networkAvailable THEN "mkdir" ELSE "offline"]
  /\ UNCHANGED <<keying, pc, propsSource, isRemote, networkAvailable, fs, jobs, ctl, dels>>

\* RNFS.stat answered with a regular file of size > 0: cache hit.
StatThen(r) ==
  /\ reqs[r].phase = "stat"
  /\ StatValid(reqs[r].path)
  /\ SetState(TRUE, reqs[r].path, Null)
  /\ reqs' = [reqs EXCEPT ![r].phase = "hit"]
  /\ UNCHANGED <<keying, pc, propsSource, isRemote, networkAvailable, fs, jobs, ctl, dels>>

\* StatCatch without the test of this.networkAvailable.
StatCatchIgnoresNetwork(r) ==
  /\ reqs[r].phase = "stat"
  /\ ~StatValid(reqs[r].path)
  /\ reqs' = [reqs EXCEPT ![r].phase = "mkdir"]
  /\ UNCHANGED <<keying, pc, propsSource, isRemote, networkAvailable, fs, jobs, ctl, dels,
                 resolved>>

\* RNFS.stat failed or the file is not valid: without network nothing more
\* happens; with network RNFS.mkdir is called.
StatCatch(r) ==
  /\ reqs[r].phase = "stat"
  /\ ~StatValid(reqs[r].path)
  /\ reqs' = [reqs EXCEPT ![r].phase =
                IF networkAvailable THEN "mkdir" ELSE "offline"]
  /\ UNCHANGED <<keying, pc, propsSource, isRemote, networkAvailable, fs, jobs, ctl, dels, resolved>>

\* RNFS.mkdir succeeded: the file of the entry resolved so far is deleted,
\* the tracked job is stopped and the download is started and tracked.
MkdirThen(r) ==
  /\ reqs[r].phase = "mkdir"
  /\ dels' = IF cacheable /\ cachedImagePath # Null
               THEN DeleteFilePath(dels, cachedImagePath)
               ELSE dels
  /\ jobs' = Append(StopDownloadJobs(jobs),
                    [path |-> reqs[r].path, req |-> r, st |-> "live",
                     begin |-> "none", status |-> 0, end |-> "none",
                     cancelled |-> FALSE, superseded |-> FALSE])
  /\ downloading' = TRUE
  /\ jobId' = Len(jobs) + 1
  /\ reqs' = [reqs EXCEPT ![r].phase = "started"]
  /\ replaced' = IF replaced = reqs[r].path THEN Null ELSE replaced
  /\ UNCHANGED <<keying, pc, propsSource, isRemote, networkAvailable, fs,
                 cacheable, cachedImagePath, writerJob>>

\* MkdirCatch without the call of setState.
MkdirCatchKeepsState(r) ==
  /\ reqs[r].phase = "mkdir"
  /\ dels' = DeleteFilePath(dels, reqs[r].path)
  /\ reqs' = [reqs EXCEPT ![r].phase = "mkdirFail"]
  /\ UNCHANGED <<keying, pc, propsSource, isRemote, networkAvailable, fs, jobs, ctl,
                 resolved>>

\* RNFS.mkdir failed.
MkdirCatch(r) ==
  /\ reqs[r].phase = "mkdir"
  /\ dels' = DeleteFilePath(dels, reqs[r].path)
  /\ SetState(FALSE, Null, Null)
  /\ reqs' = [reqs EXCEPT ![r].phase = "mkdirFail"]
  /\ UNCHANGED <<keying, pc, propsSource, isRemote, networkAvailable, fs, jobs, ctl>>

\* ---------------------------------------------------------- transport
\* The response headers arrive: the begin event is emitted with its status.
TransportBegin(j, s) ==
  /\ jobs[j].st = "live"
  /\ jobs[j].begin = "none"
  /\ jobs' = [jobs EXCEPT ![j].begin = "queued", ![j].status = s]
  /\ UNCHANGED <<keying, pc, propsSource, isRemote, networkAvailable, fs, reqs, ctl, dels, resolved>>

\* The transport writes bytes of the response body to the target file.
TransportWrite(j) ==
  /\ jobs[j].st = "live"
  /\ jobs[j].begin # "none"
  /\ fs[jobs[j].path] # "partial"
  /\ fs' = [fs EXCEPT ![jobs[j].path] = "partial"]
  /\ UNCHANGED <<keying, pc, propsSource, isRemote, networkAvailable, reqs, jobs, ctl, dels, resolved>>

\* The transfer ends with the status of the response: the promise will
\* resolve.  A successful transfer leaves the whole file.
TransportResolve(j) ==
  /\ jobs[j].st = "live"
  /\ jobs[j].begin # "none"
  /\ jobs' = [jobs EXCEPT ![j].st = "resolved"]
  /\ fs' = IF jobs[j].status = Ok
             THEN [fs EXCEPT ![jobs[j].path] = "complete"]
             ELSE fs
  /\ UNCHANGED <<keying, pc, propsSource, isRemote, networkAvailable, reqs, ctl, dels, resolved>>

\* The transfer fails (connection lost, unreadable response): the promise
\* will reject.
TransportReject(j) ==
  /\ jobs[j].st = "live"
  /\ jobs' = [jobs EXCEPT ![j].st = "rejected"]
  /\ UNCHANGED <<keying, pc, propsSource, isRemote, networkAvailable, fs, reqs, ctl, dels, resolved>>

\* ------------------------------------------------- download callbacks
imageDownloadBegin(j) ==
  /\ jobs[j].begin = "queued"
  /\ jobs' = [jobs EXCEPT ![j].begin = "delivered"]
  /\ IF jobs[j].status \in {NotFound, Forbidden}
       THEN UNCHANGED <<downloading, jobId>>
       ELSE /\ downloading' = TRUE
            /\ jobId' = j
  /\ UNCHANGED <<keying, pc, propsSource, isRemote, networkAvailable, fs, reqs, dels, resolved>>

\* imageDownloadProgress that leaves this.jobId set on the last event.
imageDownloadProgressKeepsJobId(j, full) ==
  /\ jobs[j].st \in {"live", "resolved", "rejected"}
  /\ jobs[j].begin = "delivered"
  /\ downloading' = IF full THEN FALSE ELSE downloading
  /\ UNCHANGED <<keying, pc, propsSource, isRemote, networkAvailable, fs, reqs, jobs,
                 jobId, dels, resolved>>

\* A progress event of job j, emitted after its begin event and delivered
\* before its promise settles; full: bytesWritten equals contentLength.
imageDownloadProgress(j, full) ==
  /\ jobs[j].st \in {"live", "resolved", "rejected"}
  /\ jobs[j].begin = "delivered"
  /\ IF full
       THEN /\ downloading' = FALSE
            /\ jobId' = Null
       ELSE UNCHANGED <<downloading, jobId>>
  /\ UNCHANGED <<keying, pc, propsSource, isRemote, networkAvailable, fs, reqs, jobs, dels, resolved>>

\* download.promise resolved.
DownloadThen(j) ==
  /\ jobs[j].st = "resolved"
  /\ jobs[j].begin # "queued"
  /\ jobs' = [jobs EXCEPT ![j].st = "done", ![j].status = 0, ![j].begin = "none",
                          ![j].end = IF jobs[j].status = Ok THEN "ok" ELSE "failed"]
  /\ downloading' = FALSE
  /\ jobId' = Null
  /\ IF jobs[j].status \in {NotFound, Forbidden}
       THEN SetState(FALSE, Null, j)
       ELSE SetState(TRUE, jobs[j].path, j)
  /\ UNCHANGED <<keying, pc, propsSource, isRemote, networkAvailable, fs, reqs, dels>>

\* download.promise rejected (failure, or the job was stopped).
DownloadCatch(j) ==
  /\ jobs[j].st = "rejected"
  /\ jobs[j].begin # "queued"
  /\ jobs' = [jobs EXCEPT ![j].st = "done", ![j].status = 0, ![j].begin = "none",
                          ![j].end = IF jobs[j].cancelled THEN "cancelled"
                                                          ELSE "failed"]
  /\ dels' = DeleteFilePath(dels, jobs[j].path)
  /\ IF downloading
       THEN /\ downloading' = FALSE
            /\ jobId' = Null
            /\ SetState(FALSE, Null, j)
       ELSE UNCHANGED <<downloading, jobId, resolved>>
  /\ UNCHANGED <<keying, pc, propsSource, isRemote, networkAvailable, fs, reqs>>

\* ------------------------------------------------------ deleteFilePath
\* A pending deleteFilePath(p) executes: RNFS.exists answers, and when the
\* file exists RNFS.unlink removes it.  The answer and the removal are one
\* step: a removal that follows its answer later leaves the same files as
\* this step taken at the time of the removal.
Unlink(p) ==
  /\ dels[p] > 0
  /\ dels' = [dels EXCEPT ![p] = @ - 1]
  /\ fs' = IF Exists(p) THEN [fs EXCEPT ![p] = "none"] ELSE fs
  /\ UNCHANGED <<keying, pc, propsSource, isRemote, networkAvailable, reqs, jobs, ctl, resolved>>

\* ---------------------------------------------------------------- Next
Next ==
  \/ componentWillMount
  \/ \E s \in Sources, same \in BOOLEAN, net \in BOOLEAN :
        componentWillReceiveProps(s, same, net)
  \/ componentWillUnmount
  \/ \E b \in BOOLEAN : handleConnectivityChange(b)
  \/ \E r \in DOMAIN reqs : StatThen(r)
  \/ \E r \in DOMAIN reqs : StatCatch(r)
  \/ \E r \in DOMAIN reqs : MkdirThen(r)
  \/ \E r \in DOMAIN reqs : MkdirCatch(r)
  \/ \E j \in DOMAIN jobs, s \in Statuses : TransportBegin(j, s)
  \/ \E j \in DOMAIN jobs : TransportWrite(j)
  \/ \E j \in DOMAIN jobs : TransportResolve(j)
  \/ \E j \in DOMAIN jobs : TransportReject(j)
  \/ \E j \in DOMAIN jobs : imageDownloadBegin(j)
  \/ \E j \in DOMAIN jobs, full \in BOOLEAN : imageDownloadProgress(j, full)
  \/ \E j \in DOMAIN jobs : DownloadThen(j)
  \/ \E j \in DOMAIN jobs : DownloadCatch(j)
  \/ \E p \in Paths : Unlink(p)

Spec == Init /\ [][Next]_vars

\* ------------------------------------------- cache-key specification
\* The derivation of cache keys on its own: a component constructed with
\* any value of useQueryParamsInCacheKey is handed sources, and lines
\* 197-211 of processSource derive the key of each.  The lookups and
\* downloads that follow are those of Spec and are left out here.
component == <<pc, propsSource, isRemote, cacheable, cachedImagePath,
               networkAvailable, downloading, jobId, fs, reqs, jobs, dels,
               writerJob, replaced>>

KeyInit ==
  /\ pc = "constructed"
  /\ propsSource = NoUri
  /\ isRemote = FALSE
  /\ cachedImagePath = Null
  /\ cacheable = TRUE
  /\ networkAvailable = FALSE
  /\ downloading = FALSE
  /\ jobId = Null
  /\ fs = [p \in Paths |-> "none"]
  /\ reqs = <<>>
  /\ jobs = <<>>
  /\ dels = [p \in Paths |-> 0]
  /\ writerJob = Null
  /\ replaced = Null
  /\ useQueryParamsInCacheKey \in Policies
  /\ keyed = <<>>

\* processSource({uri}), lines 197-211: the key of the source is derived.
deriveCacheKey(uri) ==
  /\ Len(keyed) < MaxKeyed
  /\ keyed' = Append(keyed, [uri |-> uri,
                             cacheKey |-> CacheKey(uri, useQueryParamsInCacheKey)])
  /\ UNCHANGED <<useQueryParamsInCacheKey, component>>

KeyNext == \E uri \in Uris : deriveCacheKey(uri)

SpecKey == KeyInit /\ [][KeyNext]_vars

\* Every asynchronous operation has finished: no stat or mkdir is pending,
\* every job's promise callback has run, no deletion is pending.
Quiescent ==
  /\ \A r \in DOMAIN reqs : reqs[r].phase \notin {"stat", "mkdir"}
  /\ \A j \in DOMAIN jobs : jobs[j].st = "done"
  /\ \A p \in Paths : dels[p] = 0

\* Job j is running at the transport.
Live(j) == jobs[j].st = "live"

TypeOK ==
  /\ pc \in {"constructed", "mounted", "unmounted"}
  /\ propsSource \in Sources
  /\ isRemote \in BOOLEAN /\ cacheable \in BOOLEAN /\ downloading \in BOOLEAN
  /\ networkAvailable \in BOOLEAN
  /\ cachedImagePath \in Paths \cup {Null}
  /\ jobId \in DOMAIN jobs \cup {Null}
  /\ fs \in [Paths -> FileStates]
  /\ Len(reqs) <= MaxSubmits /\ Len(jobs) <= Len(reqs)
  /\ writerJob \in DOMAIN jobs \cup {Null}
  /\ replaced \in Paths \cup {Null}


\* ------------------------------------------------------------- claims
\* Request r's lookup is answered in this step.
StatAnswered(r) == reqs[r].phase = "stat" /\ reqs'[r].phase # "stat"

\* No job of request r exists.
NoJobFor(r) == \A j \in DOMAIN jobs : jobs[j].req # r

\* C1 - Cache-hit purity: when the lookup of a request's target path finds a
\* regular file of size > 0, the step that handles the answer resolves the
\* component to cacheable = true with cachedImagePath = that path, starts no
\* job and calls no mkdir; the request stays a hit and no job is ever
\* started for it.
C1_CacheHitPurity ==
  /\ [][\A r \in DOMAIN reqs :
          /\ (StatAnswered(r) /\ StatValid(reqs[r].path)) =>
               /\ reqs'[r].phase = "hit"
               /\ cacheable' /\ cachedImagePath' = reqs[r].path
               /\ jobs' = jobs
          /\ reqs[r].phase = "hit" => reqs'[r].phase = "hit"]_vars
  /\ [](\A r \in DOMAIN reqs : reqs[r].phase = "hit" => NoJobFor(r))

\* A request was a hit and the component shows its file while another
\* request of the component has started a download.
C1_Witness ==
  \E r \in DOMAIN reqs :
    /\ reqs[r].phase = "hit"
    /\ cacheable /\ cachedImagePath = reqs[r].path
    /\ \E q \in DOMAIN reqs : reqs[q].phase = "started"

\* The lookup of request r is answered as a miss while the connectivity flag
\* is off, and the step changes nothing but the request's own phase.
OfflineMissFrame(r) ==
  (StatAnswered(r) /\ ~StatValid(reqs[r].path) /\ ~networkAvailable) =>
    /\ reqs'[r].phase = "offline"
    /\ jobs' = jobs /\ dels' = dels /\ fs' = fs
    /\ cacheable' = cacheable /\ cachedImagePath' = cachedImagePath
    /\ downloading' = downloading /\ jobId' = jobId

\* C2 as stated - Connectivity gating: a submit whose lookup misses while
\* the connectivity flag is off creates no directory, starts no download,
\* deletes no file and leaves the resolved state and the tracked job
\* (downloading, jobId) as they were: the submit stopped no job either.
C2_ConnectivityGatingStated ==
  [][\A r \in DOMAIN reqs :
       /\ OfflineMissFrame(r)
       /\ reqs'[r].phase = "offline" => reqs[r].stopped = Null]_vars

\* C2 amended - the lookup step of such a submit creates no directory,
\* starts no download, deletes no file and leaves the resolved state and the
\* tracked job unchanged; the request stays without directory and job.  The
\* one change the submit makes to the tracked job is made by processSource
\* before the lookup: it stops the job tracked at that moment, leaving
\* downloading = false and jobId = null.
C2_ConnectivityGating ==
  /\ [][\A r \in DOMAIN reqs :
          /\ OfflineMissFrame(r)
          /\ reqs[r].phase = "offline" => reqs'[r].phase = "offline"]_vars
  /\ [][\A r \in DOMAIN reqs' \ DOMAIN reqs :
          /\ jobId' = Null
          /\ downloading' = (downloading /\ jobId = Null)
          /\ reqs'[r].stopped = jobId
          /\ \A j \in DOMAIN jobs : jobs'[j].st # jobs[j].st => j = jobId]_vars
  /\ [](\A r \in DOMAIN reqs : reqs[r].phase = "offline" => NoJobFor(r))

\* A submit made while a job was tracked ended as a miss without network.
C2_Witness ==
  \E r \in DOMAIN reqs : reqs[r].phase = "offline" /\ reqs[r].stopped # Null

\* C3 - Supersession safety: a job that was in progress (running, and
\* tracked by the component) when a later source was submitted has been
\* cancelled at the transport, and once every pending operation has finished
\* the resolved state was not last written by a callback of that job.
C3_SupersessionSafety ==
  \A j \in DOMAIN jobs :
    jobs[j].superseded =>
      /\ jobs[j].cancelled
      /\ Quiescent => writerJob # j

\* C4 - Single active job: at most one job of the component is running at
\* the transport.
C4_SingleActiveJob ==
  Cardinality({j \in DOMAIN jobs : Live(j)}) <= 1

\* C5 - Surfaced entries are valid: whenever cacheable is true and
\* cachedImagePath is set, the file at cachedImagePath exists with size > 0.
C5_SurfacedEntryValid ==
  (cacheable /\ cachedImagePath # Null) => StatValid(cachedImagePath)

\* C6 - Cleanup: once a job has ended failed or cancelled, its callback has
\* run and no deletion of its path is pending, no file exists at its target
\* path (no other job of the component having had the same target path).
C6_CleanupAfterFailure ==
  \A j \in DOMAIN jobs :
    ( /\ jobs[j].end \in {"failed", "cancelled"}
      /\ dels[jobs[j].path] = 0
      /\ \A k \in DOMAIN jobs : k # j => jobs[k].path # jobs[j].path )
    => ~Exists(jobs[j].path)

\* C7 - Status-code policy at completion: the promise callback of a job
\* whose final status is not a success resolves the component to
\* cacheable = false with cachedImagePath = null.
C7_StatusPolicyAtCompletion ==
  [][\A j \in DOMAIN jobs :
       (jobs[j].st = "resolved" /\ jobs'[j].st = "done" /\ jobs[j].status # Ok)
         => (~cacheable' /\ cachedImagePath' = Null)]_vars

\* C8 - Status-code policy at begin: a job whose begin event carries 404 or
\* 403 is not tracked between its start and its terminal callback:
\* downloading is false or jobId is another job's handle.
C8_BeginStatusNeverTracked ==
  \A j \in DOMAIN jobs :
    (jobs[j].st # "done" /\ jobs[j].status \in {NotFound, Forbidden})
      => ~(downloading /\ jobId = j)

\* C9 - Old-entry eviction: once the resolved cachedImagePath has changed
\* from a path P to another path Q and every pending operation has finished,
\* the file at P does not exist (P not having been resolved or downloaded
\* again since).
C9_OldEntryEvicted ==
  (Quiescent /\ replaced # Null /\ cachedImagePath # Null)
    => ~Exists(replaced)

\* C10 - Teardown cancels the active job: componentWillUnmount stops every
\* job running at the transport and leaves downloading = false, jobId = null.
C10_TeardownCancels ==
  [][(pc = "mounted" /\ pc' = "unmounted") =>
       /\ \A j \in DOMAIN jobs : Live(j) => jobs'[j].cancelled
       /\ ~downloading' /\ jobId' = Null]_vars

\* Uris u and w have the same value, or both none, for parameter k.
SameParam(u, w, k) ==
  /\ (k \in DOMAIN u.query) = (k \in DOMAIN w.query)
  /\ k \in DOMAIN u.query => u.query[k] = w.query[k]

\* Uris u and w have the same pathname and agree on every listed parameter.
SameSelected(u, w, names) ==
  /\ u.pathname = w.pathname
  /\ \A i \in DOMAIN names : SameParam(u, w, names[i])

\* C11 - Cache-key uniqueness under a list of names: when
\* useQueryParamsInCacheKey is a list of parameter names, the keys derived
\* for two uris are equal if and only if the uris have the same pathname and
\* the same value, or both none, for every listed parameter (so that
\* parameters outside the list never affect the key).
C11_KeyUniqueness ==
  useQueryParamsInCacheKey.isArray =>
    \A i, j \in DOMAIN keyed :
      (keyed[i].cacheKey = keyed[j].cacheKey)
        <=> SameSelected(keyed[i].uri, keyed[j].uri,
                         useQueryParamsInCacheKey.names)

\* C12 - Cache key under the policy "all": when useQueryParamsInCacheKey is
\* true, two uris with the same pathname and different queries derive
\* different keys.
C12_AllPolicyDistinguishesQueries ==
  (~useQueryParamsInCacheKey.isArray /\ useQueryParamsInCacheKey.truthy) =>
    \A i, j \in DOMAIN keyed :
      ( /\ keyed[i].uri.pathname = keyed[j].uri.pathname
        /\ keyed[i].uri.query # keyed[j].uri.query )
      => keyed[i].cacheKey # keyed[j].cacheKey

\* Job j was stopped at the transport, or a later source was processed
\* while it was tracked.
Stale(j) == jobs[j].cancelled \/ jobs[j].superseded

\* A begin, progress, completion or failure callback of job j runs.
CallbackOf(j) ==
  \/ imageDownloadBegin(j)
  \/ \E full \in BOOLEAN : imageDownloadProgress(j, full)
  \/ DownloadThen(j)
  \/ DownloadCatch(j)

\* C13 - Stale callbacks are no-ops: a begin, progress, completion or
\* failure callback of a job that has been cancelled or superseded leaves
\* downloading, jobId, cacheable and cachedImagePath unchanged.
C13_StaleCallbacksNoOps ==
  [][\A j \in DOMAIN jobs :
       (Stale(j) /\ CallbackOf(j)) =>
          UNCHANGED <<downloading, jobId, cacheable, cachedImagePath>>]_vars

\* C14 - Completion-detection fallback: when a progress callback of the
\* tracked job (begin status 200, never stopped or superseded) reports
\* bytesWritten equal to contentLength, the component is in the terminal
\* state of a completed download without any terminal callback having to
\* arrive: downloading = false, jobId = null, cacheable = true and
\* cachedImagePath = the job's target path.
C14_FallbackConverges ==
  [][\A j \in DOMAIN jobs :
       ( /\ downloading /\ jobId = j
         /\ jobs[j].status = Ok /\ ~Stale(j)
         /\ imageDownloadProgress(j, TRUE) )
       => ( /\ ~downloading' /\ jobId' = Null
            /\ cacheable' /\ cachedImagePath' = jobs[j].path )]_vars

\* C15 - Retry on connectivity: when the last source processed ended as a
\* miss without network, the component is still mounted with that source,
\* the connectivity flag has since become true and no operation is pending,
\* a download has been started for that request.
C15_RetryOnConnectivity ==
  \A r \in DOMAIN reqs :
    ( /\ r = Len(reqs) /\ reqs[r].phase = "offline"
      /\ pc = "mounted" /\ propsSource # NoUri
      /\ networkAvailable /\ Quiescent )
    => ~NoJobFor(r)

\* C16 - Directory-creation gate: a job is started for a request only in
\* the step in which the request's mkdir succeeds; the step in which its
\* mkdir fails starts no job and resolves the component to cacheable = false
\* with cachedImagePath = null, and no job is ever started for that request.
C16_DirectoryGate ==
  /\ [][\A j \in DOMAIN jobs' \ DOMAIN jobs :
          /\ jobs'[j].req \in DOMAIN reqs
          /\ reqs[jobs'[j].req].phase = "mkdir"
          /\ reqs'[jobs'[j].req].phase = "started"]_vars
  /\ [][\A r \in DOMAIN reqs :
          /\ (reqs[r].phase = "mkdir" /\ reqs'[r].phase = "mkdirFail") =>
               (~cacheable' /\ cachedImagePath' = Null /\ jobs' = jobs)
          /\ reqs[r].phase = "mkdirFail" => reqs'[r].phase = "mkdirFail"]_vars
  /\ [](\A r \in DOMAIN reqs : reqs[r].phase = "mkdirFail" => NoJobFor(r))

\* The mkdir of one request failed and the component is resolved to
\* uncacheable by that callback; the mkdir of another request succeeded and
\* its download was started.
C16_Witness ==
  \E r, q \in DOMAIN reqs :
    /\ reqs[r].phase = "mkdirFail" /\ ~cacheable /\ cachedImagePath = Null
    /\ writerJob = Null
    /\ reqs[q].phase = "started" /\ ~NoJobFor(q)

\* C17 - Last submit wins: for two sources A then B with different target
\* paths, once every pending operation has finished, cachedImagePath is not
\* A's target path, no job of A is running, and when the component shows
\* B's file that file exists (B's lookup not having ended as a miss without
\* network, which resolves nothing).
C17_LastSubmitWins ==
  ( /\ Quiescent /\ Len(reqs) = 2 /\ reqs[1].path # reqs[2].path
    /\ reqs[2].phase # "offline" ) =>
    /\ cachedImagePath # reqs[1].path
    /\ \A j \in DOMAIN jobs : jobs[j].req = 1 => ~Live(j)
    /\ (cacheable /\ cachedImagePath = reqs[2].path) => Exists(reqs[2].path)

\* C18 - No partial file is surfaced, in the case the claim singles out:
\* when a source is submitted again while the download of the same target
\* path is in progress (the submit stops the job), the lookup of the new
\* request does not resolve the component, as a cache hit, to a file that is
\* the partly written output of a job that has not completed successfully.
C18_NoPartialSurfaced ==
  [][\A r \in DOMAIN reqs :
       ( /\ StatAnswered(r) /\ reqs'[r].phase = "hit"
         /\ reqs[r].stopped # Null
         /\ jobs[reqs[r].stopped].path = reqs[r].path )
       => fs'[cachedImagePath'] # "partial"]_vars

\* C19 - Quiescence after teardown: once componentWillUnmount has run, no
\* download is started (RNFS.downloadFile is not called again), also when
\* the lookup or mkdir callback of an earlier submit arrives after it.
C19_NoDownloadAfterTeardown ==
  [][pc = "unmounted" => Len(jobs') = Len(jobs)]_vars

\* C20 - Handle/flag consistency: in every reachable state downloading is
\* true if and only if jobId is not null.
C20_HandleFlagConsistency == downloading <=> (jobId # Null)

\* After teardown, the late begin event of the job that teardown stopped
\* has been delivered: the job is tracked again, flag and handle together.
C20_Witness ==
  /\ pc = "unmounted"
  /\ downloading /\ jobId # Null
  /\ jobs[jobId].cancelled

====
